---- MODULE Spec2Model ----
(***************************************************************************)
(* Model of the analytics views of EvalAI (apps/analytics/views.py).      *)
(*                                                                         *)
(* The store (challenges, phases, participant teams, participants and     *)
(* submissions) is written elsewhere; the six views only read it.  Each   *)
(* view is one action that leaves its HTTP response in `response`.  The   *)
(* decorators (authentication, IsChallengeCreator, throttling) belong to  *)
(* the framework and are not modelled: every request below is one that    *)
(* passed them.                                                           *)
(*                                                                         *)
(* Time is counted in ticks, TicksPerDay ticks to a day, tick 0 being     *)
(* midnight UTC of day 0.                                                 *)
(***************************************************************************)
EXTENDS Integers, Sequences, FiniteSets, Bags, TLC

VARIABLES
    submissions,       \* bag of Submission rows (the jobs_submission table)
    participantTeams,  \* challenge pk -> set of ParticipantTeam pks
    participants,      \* sequence of Participant rows, each the pk of its team
    response           \* the request last served from the store as it is now, and
                       \* its response (none once the store has changed)

vars == <<submissions, participantTeams, participants, response>>
store == <<submissions, participantTeams, participants>>

----------------------------------------------------------------------------
(* Bounds of the model *)

TicksPerDay == 2
MaxSubmissions == 2
MaxParticipants == 3

(* timedelta(days=7) and timedelta(days=30) *)
WeekDays == 7
MonthDays == 30

----------------------------------------------------------------------------
(* The directory of challenges and phases (read only) *)

Challenges == {1, 2}
ChallengePhases == {[id |-> 1, challenge |-> 1],
                    [id |-> 2, challenge |-> 1],
                    [id |-> 3, challenge |-> 2]}
Users == {1, 2}
Teams == {1, 2, 3}

\* the participant team a user submits for
TeamOfUser(u) == u

\* a row of the submissions table
Submission(phase, submitter, created, submitted) ==
    [challenge_phase |-> phase, created_by |-> submitter,
     participant_team |-> TeamOfUser(submitter),
     created_at |-> created, submitted_at |-> submitted]

\* challenge pks a request may carry; 9 resolves to nothing
ChallengePks == Challenges \cup {9}

PhaseChallenge(phase_pk) ==
    (CHOOSE p \in ChallengePhases : p.id = phase_pk).challenge

----------------------------------------------------------------------------
(* Strings whose letters matter are sequences of one-letter strings *)

UpperLetters == <<"A","B","C","D","E","F","G","H","I","J","K","L","M",
                  "N","O","P","Q","R","S","T","U","V","W","X","Y","Z">>
LowerLetters == <<"a","b","c","d","e","f","g","h","i","j","k","l","m",
                  "n","o","p","q","r","s","t","u","v","w","x","y","z">>

LowerChar(ch) ==
    IF \E i \in DOMAIN UpperLetters : UpperLetters[i] = ch
    THEN LowerLetters[CHOOSE i \in DOMAIN UpperLetters : UpperLetters[i] = ch]
    ELSE ch

\* str.lower()
lower(s) == [i \in 1..Len(s) |-> LowerChar(s[i])]

W_all == <<"a","l","l">>
W_daily == <<"d","a","i","l","y">>
W_weekly == <<"w","e","e","k","l","y">>
W_monthly == <<"m","o","n","t","h","l","y">>

----------------------------------------------------------------------------
(* Dates *)

\* datetime.date(): the day of an instant; as a bound of a datetime lookup
\* a date stands for its midnight
date(t) == t - (t % TicksPerDay)

timedelta(days) == days * TicksPerDay

----------------------------------------------------------------------------
(* Querysets over the bag of submissions *)

\* the rows of B that are in the set kept, each as often as in B
FilterBag(B, kept) ==
    [s \in kept \cap DOMAIN B |-> B[s]]

Max(S) == CHOOSE x \in S : \A y \in S : y <= x

----------------------------------------------------------------------------
(* Requests and responses *)

HTTP_200_OK == 200
HTTP_404_NOT_FOUND == 404
HTTP_406_NOT_ACCEPTABLE == 406

W_user == <<"u","s","e","r">>

Request(op, challenge_pk, challenge_phase_pk, arg, user, now) ==
    [op |-> op, challenge_pk |-> challenge_pk,
     challenge_phase_pk |-> challenge_phase_pk, arg |-> arg,
     user |-> user, now |-> now]

NoRequest == Request("none", 0, 0, <<>>, 0, 0)

\* Response(data, status): kind tells the shape of the body (a JSON object,
\* a JSON list, or no body because the view raised)
Response(kind, body, status) == [kind |-> kind, body |-> body, status |-> status]

ErrorResponse(message, status) == Response("object", [error |-> message], status)

\* an exception no handler catches ends the request in a server error
Unhandled(exception) == Response("unhandled", [exception |-> exception], 500)

\* challenges.utils.get_challenge_model / get_challenge_phase_model
ChallengeExists(challenge_pk) == challenge_pk \in Challenges
ChallengePhaseExists(phase_pk) == \E p \in ChallengePhases : p.id = phase_pk
NotFound == ErrorResponse("not found", HTTP_404_NOT_FOUND)

----------------------------------------------------------------------------
(* get_participant_team_count *)

get_participant_team_count_response(teams, challenge_pk) ==
    IF ~ChallengeExists(challenge_pk) THEN NotFound
    ELSE Response("object",
                  [participant_team_count |-> Cardinality(teams[challenge_pk])],
                  HTTP_200_OK)

(* get_participant_count *)

\* (variant: the team filter left out)
ParticipantsOfAnyTeam(parts, participant_teams) == DOMAIN parts

\* Participant.objects.filter(team__in=participant_teams)
ParticipantsOfTeams(parts, participant_teams) ==
    {i \in DOMAIN parts : parts[i] \in participant_teams}

get_participant_count_response(teams, parts, challenge_pk) ==
    IF ~ChallengeExists(challenge_pk) THEN NotFound
    ELSE LET participant_teams == teams[challenge_pk]
         IN Response("object",
                     [participant_count |->
                        Cardinality(ParticipantsOfTeams(parts, participant_teams))],
                     HTTP_200_OK)

----------------------------------------------------------------------------
(* get_submission_count *)

\* (variant: the token compared without lower())
ValidDuration_case_sensitive(duration) ==
    duration \in {W_all, W_daily, W_weekly, W_monthly}

ValidDuration(duration) ==
    lower(duration) \in {W_all, W_daily, W_weekly, W_monthly}

\* (variant: the lower bound kept as a datetime, .date() left out)
since_date_untruncated(duration, now) ==
    IF lower(duration) = W_daily THEN {now}
    ELSE IF lower(duration) = W_weekly THEN {now - timedelta(WeekDays)}
    ELSE IF lower(duration) = W_monthly THEN {now - timedelta(MonthDays)}
    ELSE {}

\* (variant: the weekly and monthly spans exchanged)
since_date_swapped(duration, now) ==
    IF lower(duration) = W_daily THEN {date(now)}
    ELSE IF lower(duration) = W_weekly THEN {date(now - timedelta(MonthDays))}
    ELSE IF lower(duration) = W_monthly THEN {date(now - timedelta(WeekDays))}
    ELSE {}

\* the lower bound of submitted_at, as a set: empty for None
since_date(duration, now) ==
    IF lower(duration) = W_daily THEN {date(now)}
    ELSE IF lower(duration) = W_weekly THEN {date(now - timedelta(WeekDays))}
    ELSE IF lower(duration) = W_monthly THEN {date(now - timedelta(MonthDays))}
    ELSE {}

\* challenge.challengephase_set.all().values_list('id', flat=True)
challenge_phase_ids(challenge_pk) ==
    {p.id : p \in {q \in ChallengePhases : q.challenge = challenge_pk}}

\* Submission.objects.filter(**q_params)
SubmissionsSince(subs, phase_ids, since) ==
    FilterBag(subs, {s \in DOMAIN subs :
                        /\ s.challenge_phase \in phase_ids
                        /\ \A d \in since : s.submitted_at >= d})

get_submission_count_response(subs, challenge_pk, duration, now) ==
    IF ~ValidDuration(duration)
    THEN ErrorResponse("Wrong URL pattern!", HTTP_406_NOT_ACCEPTABLE)
    ELSE IF ~ChallengeExists(challenge_pk) THEN NotFound
    ELSE LET matching == SubmissionsSince(subs, challenge_phase_ids(challenge_pk),
                                          since_date(duration, now))
         IN Response("object", [submission_count |-> BagCardinality(matching)],
                     HTTP_200_OK)

----------------------------------------------------------------------------
(* The querysets of the per-phase views *)

\* (variant: the challenge_phase__challenge condition left out)
PhaseSubmissions_any_challenge(subs, challenge_pk, phase_pk) ==
    FilterBag(subs, {s \in DOMAIN subs : s.challenge_phase = phase_pk})

\* Submission.objects.filter(challenge_phase__challenge=challenge,
\*                           challenge_phase=challenge_phase)
PhaseSubmissions(subs, challenge_pk, phase_pk) ==
    FilterBag(subs, {s \in DOMAIN subs :
                        /\ PhaseChallenge(s.challenge_phase) = challenge_pk
                        /\ s.challenge_phase = phase_pk})

\* Submission.objects.filter(created_by=request.user.pk, challenge_phase=...,
\*                           challenge_phase__challenge=...)
UserPhaseSubmissions(subs, user, challenge_pk, phase_pk) ==
    FilterBag(subs, {s \in DOMAIN subs :
                        /\ s.created_by = user
                        /\ s.challenge_phase = phase_pk
                        /\ PhaseChallenge(s.challenge_phase) = challenge_pk})

\* (variant: ordered by created_at)
first_by_created_at(qs) ==
    {s \in DOMAIN qs : \A t \in DOMAIN qs : t.created_at <= s.created_at}

\* order_by('-submitted_at')[0]: the rows that may come first (the order
\* among rows of equal submitted_at is the database's choice)
first_by_submitted_at(qs) ==
    {s \in DOMAIN qs : \A t \in DOMAIN qs : t.submitted_at <= s.submitted_at}

----------------------------------------------------------------------------
(* get_last_submission_time *)

\* (variant: the scope compared after lower())
get_last_submission_time_responses_any_case(subs, user, challenge_pk, phase_pk, submission_by) ==
    IF ~ChallengeExists(challenge_pk) \/ ~ChallengePhaseExists(phase_pk)
    THEN {NotFound}
    ELSE IF lower(submission_by) = W_user
    THEN LET last_submitted_at ==
                 UserPhaseSubmissions(subs, user, challenge_pk, phase_pk)
         IN IF DOMAIN last_submitted_at = {}
            THEN {Unhandled("IndexError")}
            ELSE {Response("object", [last_submission_datetime |-> s.created_at],
                           HTTP_200_OK) :
                      s \in first_by_submitted_at(last_submitted_at)}
    ELSE {ErrorResponse("Page not found!", HTTP_404_NOT_FOUND)}

\* the responses the view may give (several when rows tie on submitted_at)
get_last_submission_time_responses(subs, user, challenge_pk, phase_pk, submission_by) ==
    IF ~ChallengeExists(challenge_pk) \/ ~ChallengePhaseExists(phase_pk)
    THEN {NotFound}
    ELSE IF submission_by = W_user
    THEN LET last_submitted_at ==
                 UserPhaseSubmissions(subs, user, challenge_pk, phase_pk)
         IN IF DOMAIN last_submitted_at = {}
            THEN {Unhandled("IndexError")}
            ELSE {Response("object", [last_submission_datetime |-> s.created_at],
                           HTTP_200_OK) :
                      s \in first_by_submitted_at(last_submitted_at)}
    ELSE {ErrorResponse("Page not found!", HTTP_404_NOT_FOUND)}

----------------------------------------------------------------------------
(* The serializers of apps/analytics/serializers.py: one row per submission *)
(* of the queryset, each row an aggregate over the submission's phase and  *)
(* challenge                                                               *)

ChallengePhaseSubmissionAnalysisRow(subs, obj) ==
    LET inPhase == FilterBag(subs,
                       {s \in DOMAIN subs : s.challenge_phase = obj.challenge_phase})
    IN [participant_team_count |->
            Cardinality({s.participant_team : s \in DOMAIN inPhase}),
        submission_count |-> BagCardinality(inPhase)]

LastSubmissionDateTimeAnalysisRow(subs, obj) ==
    LET inPhase == {s \in DOMAIN subs : s.challenge_phase = obj.challenge_phase}
        inChallenge == {s \in DOMAIN subs :
                           PhaseChallenge(s.challenge_phase) =
                               PhaseChallenge(obj.challenge_phase)}
    IN [last_submission_timestamp_in_challenge_phase |->
            Max({s.submitted_at : s \in inPhase}),
        last_submission_timestamp_in_challenge |->
            Max({s.submitted_at : s \in inChallenge})]

\* serializer.data with many=True, then the view's choice between data[0]
\* and the (empty) data
FirstRowOrData(rows) ==
    IF rows # {}
    THEN {Response("object", row, HTTP_200_OK) : row \in rows}
    ELSE {Response("list", <<>>, HTTP_200_OK)}

(* get_challenge_phase_submission_analysis *)

get_challenge_phase_submission_analysis_responses(subs, challenge_pk, phase_pk) ==
    IF ~ChallengeExists(challenge_pk) \/ ~ChallengePhaseExists(phase_pk)
    THEN {NotFound}
    ELSE LET qs == PhaseSubmissions(subs, challenge_pk, phase_pk)
         IN FirstRowOrData({ChallengePhaseSubmissionAnalysisRow(subs, obj) :
                                obj \in DOMAIN qs})

(* get_last_submission_datetime_analysis *)

get_last_submission_datetime_analysis_responses(subs, challenge_pk, phase_pk) ==
    IF ~ChallengeExists(challenge_pk) \/ ~ChallengePhaseExists(phase_pk)
    THEN {NotFound}
    ELSE LET qs == PhaseSubmissions(subs, challenge_pk, phase_pk)
         IN FirstRowOrData({LastSubmissionDateTimeAnalysisRow(subs, obj) :
                                obj \in DOMAIN qs})

----------------------------------------------------------------------------
(* All the responses a request may get from a store *)

Responses(subs, teams, parts, req) ==
    CASE req.op = "participant_team_count" ->
            {get_participant_team_count_response(teams, req.challenge_pk)}
      [] req.op = "participant_count" ->
            {get_participant_count_response(teams, parts, req.challenge_pk)}
      [] req.op = "submission_count" ->
            {get_submission_count_response(subs, req.challenge_pk, req.arg, req.now)}
      [] req.op = "challenge_phase_submission_analysis" ->
            get_challenge_phase_submission_analysis_responses(
                subs, req.challenge_pk, req.challenge_phase_pk)
      [] req.op = "last_submission_time" ->
            get_last_submission_time_responses(
                subs, req.user, req.challenge_pk, req.challenge_phase_pk, req.arg)
      [] req.op = "last_submission_datetime_analysis" ->
            get_last_submission_datetime_analysis_responses(
                subs, req.challenge_pk, req.challenge_phase_pk)
      [] OTHER -> {}

----------------------------------------------------------------------------
(* The views: each serves one request and leaves the store alone *)

Served(req, res) == [req |-> req, res |-> res]

NoResponse == Served(NoRequest, Response("none", <<>>, 0))

\* (variant: the view registers a team while counting)
get_participant_team_count_writing(challenge_pk) ==
    /\ response' =
           Served(Request("participant_team_count", challenge_pk, 0, <<>>, 0, 0),
                  get_participant_team_count_response(participantTeams, challenge_pk))
    /\ participantTeams' =
           IF ChallengeExists(challenge_pk)
           THEN [participantTeams EXCEPT ![challenge_pk] = @ \cup {1}]
           ELSE participantTeams
    /\ UNCHANGED <<submissions, participants>>

get_participant_team_count(challenge_pk) ==
    /\ response' =
           Served(Request("participant_team_count", challenge_pk, 0, <<>>, 0, 0),
                  get_participant_team_count_response(participantTeams, challenge_pk))
    /\ UNCHANGED store

get_participant_count(challenge_pk) ==
    /\ response' =
           Served(Request("participant_count", challenge_pk, 0, <<>>, 0, 0),
                  get_participant_count_response(participantTeams, participants,
                                                 challenge_pk))
    /\ UNCHANGED store

\* now is the value timezone.now() returns during the request
get_submission_count(challenge_pk, duration, now) ==
    /\ response' =
           Served(Request("submission_count", challenge_pk, 0, duration, 0, now),
                  get_submission_count_response(submissions, challenge_pk,
                                                duration, now))
    /\ UNCHANGED store

get_challenge_phase_submission_analysis(challenge_pk, challenge_phase_pk) ==
    /\ \E res \in get_challenge_phase_submission_analysis_responses(
                      submissions, challenge_pk, challenge_phase_pk) :
           response' =
               Served(Request("challenge_phase_submission_analysis",
                              challenge_pk, challenge_phase_pk, <<>>, 0, 0), res)
    /\ UNCHANGED store

\* user is request.user.pk
get_last_submission_time(user, challenge_pk, challenge_phase_pk, submission_by) ==
    /\ \E res \in get_last_submission_time_responses(
                      submissions, user, challenge_pk, challenge_phase_pk,
                      submission_by) :
           response' =
               Served(Request("last_submission_time", challenge_pk,
                              challenge_phase_pk, submission_by, user, 0), res)
    /\ UNCHANGED store

get_last_submission_datetime_analysis(challenge_pk, challenge_phase_pk) ==
    /\ \E res \in get_last_submission_datetime_analysis_responses(
                      submissions, challenge_pk, challenge_phase_pk) :
           response' =
               Served(Request("last_submission_datetime_analysis",
                              challenge_pk, challenge_phase_pk, <<>>, 0, 0), res)
    /\ UNCHANGED store

----------------------------------------------------------------------------
(* The writers of the store (other applications of the platform) *)

AddSubmission(s) ==
    /\ BagCardinality(submissions) < MaxSubmissions
    /\ submissions' = submissions (+) SetToBag({s})
    /\ response' = NoResponse
    /\ UNCHANGED <<participantTeams, participants>>

AddParticipantTeam(challenge_pk, team) ==
    /\ team \notin participantTeams[challenge_pk]
    /\ participantTeams' =
           [participantTeams EXCEPT ![challenge_pk] = @ \cup {team}]
    /\ response' = NoResponse
    /\ UNCHANGED <<submissions, participants>>

AddParticipant(team) ==
    /\ Len(participants) < MaxParticipants
    /\ participants' = Append(participants, team)
    /\ response' = NoResponse
    /\ UNCHANGED <<submissions, participantTeams>>

----------------------------------------------------------------------------
(* Inputs *)

\* the instants a request is served at: midnight of the day after the first
\* MonthDays days, and one tick later
Midnight == timedelta(MonthDays + 1)
NowValues == {Midnight, Midnight + 1}

W_DAILY == <<"D","A","I","L","Y">>
W_Weekly == <<"W","e","e","k","l","y">>
W_bogus == <<"b","o","g","u","s">>
W_dail == <<"d","a","i","l">>
W_USER == <<"U","S","E","R">>
W_team == <<"t","e","a","m">>

\* submitted_at on either side of each window's lower bound
WindowTimes ==
    UNION {{date(Midnight - timedelta(d)) - 1, date(Midnight - timedelta(d))} :
              d \in {0, WeekDays, MonthDays}}

----------------------------------------------------------------------------
(* Spec: all six views over a store of submissions *)

PhaseIds == {p.id : p \in ChallengePhases}
\* the phases and the caller of the requests: a phase of each challenge and
\* one that does not resolve; the caller is user 1
RequestPhasePks == {1, 3, 9}
Caller == {1}
SubmittedTimes == {Midnight - 1, Midnight}
CreatedTimes == {Midnight - 3, Midnight - 2}

Init ==
    /\ submissions = EmptyBag
    /\ participantTeams = (1 :> {1, 2} @@ 2 :> {3})
    /\ participants = <<1, 1, 3>>
    /\ response = NoResponse

Next ==
    \/ \E p \in PhaseIds, u \in Users, c \in CreatedTimes, t \in SubmittedTimes :
           AddSubmission(Submission(p, u, c, t))
    \/ \E c \in ChallengePks : get_participant_team_count(c)
    \/ \E c \in ChallengePks : get_participant_count(c)
    \/ \E c \in ChallengePks, d \in {W_all, W_daily, W_bogus} :
           get_submission_count(c, d, Midnight + 1)
    \/ \E c \in ChallengePks, p \in RequestPhasePks :
           get_challenge_phase_submission_analysis(c, p)
    \/ \E u \in Caller, c \in ChallengePks, p \in RequestPhasePks,
          by \in {W_user, W_USER, W_team} :
           get_last_submission_time(u, c, p, by)
    \/ \E c \in ChallengePks, p \in RequestPhasePks :
           get_last_submission_datetime_analysis(c, p)

Spec == Init /\ [][Next]_vars

----------------------------------------------------------------------------
(* SpecWindow: get_submission_count over submissions around the windows' *)
(* lower bounds                                                          *)

NextWindow ==
    \/ \E p \in PhaseIds, t \in WindowTimes :
           AddSubmission(Submission(p, 1, t, t))
    \/ \E c \in ChallengePks, now \in NowValues,
          d \in {W_all, W_daily, W_weekly, W_monthly,
                 W_DAILY, W_Weekly, W_bogus, W_dail, <<>>} :
           get_submission_count(c, d, now)

SpecWindow == Init /\ [][NextWindow]_vars

----------------------------------------------------------------------------
(* SpecTeams: the two participant counts over a growing set of teams *)

InitTeams ==
    /\ submissions = EmptyBag
    /\ participantTeams = [c \in Challenges |-> {}]
    /\ participants = <<>>
    /\ response = NoResponse

NextTeams ==
    \/ \E c \in Challenges, t \in Teams : AddParticipantTeam(c, t)
    \/ \E t \in Teams : AddParticipant(t)
    \/ \E c \in ChallengePks : get_participant_team_count(c)
    \/ \E c \in ChallengePks : get_participant_count(c)

SpecTeams == InitTeams /\ [][NextTeams]_vars

----------------------------------------------------------------------------
(* Properties *)

req == response.req
res == response.res

PhaseOps == {"challenge_phase_submission_analysis", "last_submission_time",
             "last_submission_datetime_analysis"}

\* the request named a challenge, and for a per-phase view a phase, that exist
Resolved ==
    /\ ChallengeExists(req.challenge_pk)
    /\ req.op \in PhaseOps => ChallengePhaseExists(req.challenge_phase_pk)

\* the submissions of the phases of one challenge
OfChallenge(subs, challenge_pk) ==
    FilterBag(subs, {s \in DOMAIN subs :
                        PhaseChallenge(s.challenge_phase) = challenge_pk})

\* the caller's submissions in the requested phase of the requested challenge
Matching ==
    {s \in DOMAIN submissions :
        /\ s.created_by = req.user
        /\ s.challenge_phase = req.challenge_phase_pk
        /\ PhaseChallenge(s.challenge_phase) = req.challenge_pk}

\* the submissions of the requested phase of the requested challenge
InRequestedPhase ==
    {s \in DOMAIN submissions :
        /\ s.challenge_phase = req.challenge_phase_pk
        /\ PhaseChallenge(s.challenge_phase) = req.challenge_pk}

RECURSIVE SumOver(_, _)
SumOver(S, f) ==
    IF S = {} THEN 0
    ELSE LET x == CHOOSE y \in S : TRUE IN f[x] + SumOver(S \ {x}, f)

\* C1: the response of each submission view is the one the same request gets
\* from the store with every submission of other challenges removed; when the
\* requested phase belongs to another challenge it is the response an empty
\* store gives.
C1_ChallengeIsolation ==
    (/\ req.op \in PhaseOps \cup {"submission_count"}
     /\ ChallengeExists(req.challenge_pk))
    => /\ Responses(submissions, participantTeams, participants, req) =
          Responses(OfChallenge(submissions, req.challenge_pk),
                    participantTeams, participants, req)
       /\ res \in Responses(OfChallenge(submissions, req.challenge_pk),
                            participantTeams, participants, req)
       /\ (/\ req.op \in PhaseOps
           /\ ChallengePhaseExists(req.challenge_phase_pk)
           /\ PhaseChallenge(req.challenge_phase_pk) # req.challenge_pk)
          => res \in Responses(EmptyBag, participantTeams, participants, req)

\* a per-phase view was asked about challenge 1 and phase 3, a phase of
\* challenge 2 that holds a submission, while challenge 1 holds one too
C1_Witness ==
    /\ req.op = "challenge_phase_submission_analysis"
    /\ req.challenge_pk = 1
    /\ req.challenge_phase_pk = 3
    /\ \E s \in DOMAIN submissions : s.challenge_phase = 3
    /\ \E s \in DOMAIN submissions : s.challenge_phase = 1

CountOf(challenge_pk, duration, now) ==
    get_submission_count_response(submissions, challenge_pk, duration, now)
        .body.submission_count

\* C2: for every challenge and every now, the counts of the windows all,
\* monthly, weekly, daily never increase in that order.
C2_WindowMonotone ==
    \A c \in Challenges, now \in NowValues :
        /\ CountOf(c, W_all, now) >= CountOf(c, W_monthly, now)
        /\ CountOf(c, W_monthly, now) >= CountOf(c, W_weekly, now)
        /\ CountOf(c, W_weekly, now) >= CountOf(c, W_daily, now)

\* a weekly count was served from a store where the windows differ
C2_Witness ==
    /\ req.op = "submission_count"
    /\ lower(req.arg) = W_weekly
    /\ res.status = HTTP_200_OK
    /\ CountOf(req.challenge_pk, W_all, req.now) >
           CountOf(req.challenge_pk, W_monthly, req.now)
    /\ CountOf(req.challenge_pk, W_weekly, req.now) >
           CountOf(req.challenge_pk, W_daily, req.now)

\* C3: the last submission time of a caller without a submission in the
\* phase is NotFound, never an unhandled error.
C3_NotFoundWhenNoSubmission ==
    (/\ req.op = "last_submission_time"
     /\ Resolved
     /\ req.arg = W_user
     /\ Matching = {})
    => /\ res.kind # "unhandled"
       /\ res.status = HTTP_404_NOT_FOUND

\* C4: the phase submission analysis of a phase without a matching
\* submission is one zero-valued record with status 200, and the last
\* submission analysis is always one summary row.
C4_ZeroRecord ==
    /\ (/\ req.op = "challenge_phase_submission_analysis"
        /\ Resolved
        /\ InRequestedPhase = {})
       => /\ res.status = HTTP_200_OK
          /\ res.kind = "object"
          /\ res.body = [participant_team_count |-> 0, submission_count |-> 0]
    /\ (/\ req.op = "last_submission_datetime_analysis"
        /\ Resolved)
       => /\ res.status = HTTP_200_OK
          /\ res.kind = "object"

SameLetter(a, b) ==
    \/ a = b
    \/ \E i \in DOMAIN UpperLetters : {a, b} = {UpperLetters[i], LowerLetters[i]}

EqualsIgnoreCase(s, w) ==
    /\ Len(s) = Len(w)
    /\ \A i \in 1..Len(w) : SameLetter(s[i], w[i])

IsWindowToken(s) ==
    \E w \in {W_all, W_daily, W_weekly, W_monthly} : EqualsIgnoreCase(s, w)

\* C5: a submission count request is refused with 406 and an error body
\* exactly when its token is none of all, daily, weekly, monthly in any
\* letter case; an accepted token of an existing challenge gets a count.
C5_WindowTokens ==
    req.op = "submission_count"
    => /\ ~IsWindowToken(req.arg)
          => /\ res.status = HTTP_406_NOT_ACCEPTABLE
             /\ DOMAIN res.body = {"error"}
       /\ IsWindowToken(req.arg)
          => /\ res.status # HTTP_406_NOT_ACCEPTABLE
             /\ ChallengeExists(req.challenge_pk)
                => /\ res.status = HTTP_200_OK
                   /\ DOMAIN res.body = {"submission_count"}

\* the upper-case token DAILY was accepted
C5_Witness ==
    /\ req.op = "submission_count"
    /\ req.arg = W_DAILY
    /\ res.status = HTTP_200_OK
    /\ res.body.submission_count > 0

\* the days a window reaches back
WindowDays(s) ==
    IF EqualsIgnoreCase(s, W_weekly) THEN WeekDays
    ELSE IF EqualsIgnoreCase(s, W_monthly) THEN MonthDays
    ELSE 0

StartOfDay(t) == (t \div TicksPerDay) * TicksPerDay

\* C6: a served count is the number of submissions of the challenge's phases
\* submitted at or after the start of the day WindowDays before now (every
\* submission for the window all).
C6_CountByWindow ==
    (req.op = "submission_count" /\ res.status = HTTP_200_OK)
    => LET cutoff == StartOfDay(req.now - WindowDays(req.arg) * TicksPerDay)
           counted == {s \in DOMAIN submissions :
                          /\ PhaseChallenge(s.challenge_phase) = req.challenge_pk
                          /\ \/ EqualsIgnoreCase(req.arg, W_all)
                             \/ s.submitted_at >= cutoff}
       IN res.body.submission_count = SumOver(counted, submissions)

\* a weekly count includes a submission made earlier than now - 7 days, on
\* the same calendar day
C6_Witness ==
    /\ req.op = "submission_count"
    /\ req.arg = W_weekly
    /\ res.status = HTTP_200_OK
    /\ res.body.submission_count = 1
    /\ \E s \in DOMAIN submissions :
           /\ PhaseChallenge(s.challenge_phase) = req.challenge_pk
           /\ s.submitted_at < req.now - WeekDays * TicksPerDay
           /\ s.submitted_at >= StartOfDay(req.now - WeekDays * TicksPerDay)

\* C7: when the caller has a submission in the phase, the last submission
\* time is the created_at of one of the caller's submissions there whose
\* submitted_at is greatest.
C7_LastSubmissionTime ==
    (/\ req.op = "last_submission_time"
     /\ Resolved
     /\ req.arg = W_user
     /\ Matching # {})
    => /\ res.status = HTTP_200_OK
       /\ res.kind = "object"
       /\ DOMAIN res.body = {"last_submission_datetime"}
       /\ \E s \in Matching :
              /\ res.body.last_submission_datetime = s.created_at
              /\ \A t \in Matching : t.submitted_at <= s.submitted_at

\* the time served is neither the greatest created_at of the caller's
\* submissions nor the submitted_at of the latest one
C7_Witness ==
    /\ req.op = "last_submission_time"
    /\ res.status = HTTP_200_OK
    /\ Cardinality(Matching) = 2
    /\ res.body.last_submission_datetime < Max({s.created_at : s \in Matching})
    /\ res.body.last_submission_datetime # Max({s.submitted_at : s \in Matching})

\* C10: a last submission time request whose scope is not exactly user, for
\* an existing challenge and phase, gets 404 with an error body.
C10_ScopeOnlyUser ==
    (/\ req.op = "last_submission_time"
     /\ Resolved
     /\ req.arg # W_user)
    => /\ res.status = HTTP_404_NOT_FOUND
       /\ res.kind = "object"
       /\ DOMAIN res.body = {"error"}

\* the scope USER was refused although the caller has a submission there
C10_Witness ==
    /\ req.op = "last_submission_time"
    /\ req.arg = W_USER
    /\ Matching # {}
    /\ res.status = HTTP_404_NOT_FOUND

\* the participants of one team
MembersOf(team) == {i \in DOMAIN participants : participants[i] = team}

\* C8: the participant count of a challenge is the sum, over the teams of
\* exactly that challenge, of their members, which is all participants but
\* those whose team is not a team of the challenge; the team count is the
\* number of teams of the challenge.
C8_ParticipantCounts ==
    /\ (req.op = "participant_count" /\ res.status = HTTP_200_OK)
       => LET teams == participantTeams[req.challenge_pk]
              members == [t \in teams |-> Cardinality(MembersOf(t))]
              outsiders == {i \in DOMAIN participants : participants[i] \notin teams}
          IN /\ res.body.participant_count = SumOver(teams, members)
             /\ res.body.participant_count =
                    Len(participants) - Cardinality(outsiders)
    /\ (req.op = "participant_team_count" /\ res.status = HTTP_200_OK)
       => res.body.participant_team_count =
              Cardinality({t \in Teams : t \in participantTeams[req.challenge_pk]})
    /\ req.op \in {"participant_count", "participant_team_count"}
       => (res.status = HTTP_200_OK <=> ChallengeExists(req.challenge_pk))

\* the participants of challenge 1 were counted while a participant belongs
\* to a team of challenge 2 only, and another to a team of both
C8_Witness ==
    /\ req.op = "participant_count"
    /\ req.challenge_pk = 1
    /\ res.status = HTTP_200_OK
    /\ res.body.participant_count = 2
    /\ \E i \in DOMAIN participants :
           /\ participants[i] \in participantTeams[2]
           /\ participants[i] \notin participantTeams[1]
    /\ \E i \in DOMAIN participants :
           participants[i] \in participantTeams[1] \cap participantTeams[2]

\* several of the caller's submissions in the requested phase come first in
\* the order by submitted_at, with different created_at
TiedLast ==
    /\ req.op = "last_submission_time"
    /\ \E s, t \in Matching :
           /\ s.created_at # t.created_at
           /\ \A u \in Matching : u.submitted_at <= s.submitted_at
           /\ \A u \in Matching : u.submitted_at <= t.submitted_at

====
